---- MODULE Spec2Model ----
(***************************************************************************)
(* The credential store of the dashboard frontend                          *)
(* (frontend/src/store/credential.js): five key -> record mappings, the    *)
(* virtual bindings derived from the labels of Secrets and                 *)
(* WorkloadIdentities, and the fetch / create / update / delete handlers.  *)
(*                                                                         *)
(* A JavaScript object used as a mapping is a sequence of entries          *)
(* [k |-> key, v |-> record] in insertion order (the order Object.keys and *)
(* Object.values report); an absent property of a record is an absent      *)
(* field.  Strings are TLA+ strings: template literals are \o,             *)
(* String.startsWith and String.slice are computed on the characters.      *)
(***************************************************************************)
EXTENDS Integers, Sequences, FiniteSets, TLC

VARIABLES state, last, io, prior, calls, applied, sink, gateway

vars == <<state, last, io, prior, calls, applied, sink, gateway>>

----------------------------------------------------------------------------
(* Bounds of the model *)

\* the largest number of resources one fetch response carries
MaxItems == 2

\* the largest number of calls started in one behaviour of the store with
\* calls in flight
MaxStarted == 3

\* the largest number of connections made to one gateway
MaxSockets == 3

----------------------------------------------------------------------------
(* Strings *)

startsWith(s, p) == Len(s) >= Len(p) /\ SubSeq(s, 1, Len(p)) = p

slice(s, n) == SubSeq(s, n + 1, Len(s))

----------------------------------------------------------------------------
(* Objects used as mappings *)

Has(r, f) == f \in DOMAIN r

Entry(key, value) == [k |-> key, v |-> value]

Keys(m) == [i \in 1..Len(m) |-> m[i].k]

Values(m) == [i \in 1..Len(m) |-> m[i].v]

KeySet(m) == {m[i].k : i \in 1..Len(m)}

IndexOf(m, key) == CHOOSE i \in 1..Len(m) : m[i].k = key

\* lodash get(object, [key]): the property, or undefined
NoValue == [undefined |-> TRUE]

get(m, key) == IF key \in KeySet(m) THEN m[IndexOf(m, key)].v ELSE NoValue

\* a mutant of set: an existing property is kept as it is
setIfAbsent(m, key, value) ==
    IF key \in {m[i].k : i \in 1..Len(m)} THEN m ELSE Append(m, [k |-> key, v |-> value])

\* lodash set(object, [key], value): an existing property keeps its place,
\* a new one is added last
set(m, key, value) ==
    IF key \in KeySet(m)
    THEN [m EXCEPT ![IndexOf(m, key)] = Entry(key, value)]
    ELSE Append(m, Entry(key, value))

\* delete object[key]
delete(m, key) ==
    LET keep(e) == e.k # key
    IN  SelectSeq(m, keep)

\* a mutant of WithKind: the object is stored as it was received
AsReceived(item, kind) == item

\* item.kind = kind on an object that may not have the property yet
WithKind(item, kind) ==
    [f \in DOMAIN item \cup {"kind"} |-> IF f = "kind" THEN kind ELSE item[f]]

----------------------------------------------------------------------------
(* Keys and capability tags *)

namespaceNameKey(metadata) == metadata.namespace \o "/" \o metadata.name

providerPrefix == "provider.shoot.gardener.cloud/"

\* metadata.labels as Object.entries(labels || {}) sees it
labelEntries(metadata) == IF Has(metadata, "labels") THEN metadata.labels ELSE <<>>

providerTypesFromLabels(labels) ==
    LET keep(e) == e.value = "true" /\ startsWith(e.key, providerPrefix)
        kept == SelectSeq(labels, keep)
    IN  [i \in 1..Len(kept) |-> slice(kept[i].key, Len(providerPrefix))]

----------------------------------------------------------------------------
(* The resources the data source can return *)

Metadata(ns, n, u) == [namespace |-> ns, name |-> n, uid |-> u]

Labelled(ns, n, u, labels) ==
    [namespace |-> ns, name |-> n, uid |-> u, labels |-> labels]

Label(key, value) == [key |-> key, value |-> value]

LabelsAB ==
    << Label(providerPrefix \o "aws", "true"),
       Label(providerPrefix \o "gcp", "true") >>

LabelsBC ==
    << Label(providerPrefix \o "gcp", "true"),
       Label(providerPrefix \o "azure", "true") >>

LabelsA == << Label(providerPrefix \o "aws", "true") >>

\* a prefixed label that is not 'true', a 'true' label without the prefix,
\* and one capability
LabelsMixed ==
    << Label(providerPrefix \o "aws", "false"),
       Label("aws", "true"),
       Label(providerPrefix \o "azure", "true") >>

SecretMetadata ==
    {Metadata("a", "s", "u1")}
        \cup {Labelled("a", "s", "u1", l) : l \in {LabelsAB, LabelsBC, LabelsMixed}}
        \cup {Labelled("a", "s1", "u1", LabelsA)}

\* list calls return the objects without their kind
SecretItems == {[metadata |-> m] : m \in SecretMetadata}

WorkloadIdentityItems ==
    {[metadata |-> Labelled("a", "s", "w1", l),
      apiVersion |-> "security.gardener.cloud/v1alpha1"] : l \in {LabelsAB, LabelsBC}}

CredentialsBindingItems ==
    {[metadata |-> Metadata("a", "s", u), provider |-> [type |-> "aws"]] :
        u \in {"u1", "u2"}}

SecretBindingItems ==
    {[metadata |-> Metadata("a", "s", u), provider |-> [type |-> "aws"]] :
        u \in {"u3", "u4"}}

QuotaItems == {[metadata |-> Metadata("a", "s", u)] : u \in {"q1", "q2"}}

Collections ==
    {"secretBindings", "secrets", "credentialsBindings", "workloadIdentities", "quotas"}

ItemsOf(c) ==
    CASE c = "secretBindings" -> SecretBindingItems
      [] c = "secrets" -> SecretItems
      [] c = "credentialsBindings" -> CredentialsBindingItems
      [] c = "workloadIdentities" -> WorkloadIdentityItems
      [] c = "quotas" -> QuotaItems

Tagged == UNION {{[coll |-> c, item |-> x] : x \in ItemsOf(c)} : c \in Collections}

\* the items of collection c among the tagged items q, in their order
Collect(q, c) ==
    LET in(t) == t.coll = c
        sel == SelectSeq(q, in)
    IN  [i \in 1..Len(sel) |-> sel[i].item]

\* the response body holding the items q; a collection without items is
\* left out of the body
ResponseOf(q) ==
    [c \in {q[i].coll : i \in 1..Len(q)} |-> Collect(q, c)]

FetchResponses ==
    {ResponseOf(q) : q \in UNION {[1..n -> Tagged] : n \in 0..MaxItems}}

\* single objects come with their kind; one binding of a kind the store
\* does not hold
BindingResults ==
    {WithKind(b, "CredentialsBinding") : b \in CredentialsBindingItems}
        \cup {WithKind(b, "SecretBinding") : b \in SecretBindingItems}
        \cup {[metadata |-> Metadata("a", "s1", "u5")]}

SecretResults == {WithKind(x, "Secret") : x \in SecretItems}

WorkloadIdentityResults ==
    {[kind |-> "WorkloadIdentity",
      metadata |-> Labelled("a", "s", "w1", LabelsBC),
      apiVersion |-> "security.gardener.cloud/v1alpha1"]}

\* the body of a create or update response: any of binding, secret and
\* workloadIdentity may be missing
MutationResponses ==
    {[f \in fs |-> CASE f = "binding" -> b [] f = "secret" -> x [] f = "workloadIdentity" -> w] :
        <<fs, b, x, w>> \in (SUBSET {"binding", "secret", "workloadIdentity"})
            \X BindingResults \X SecretResults \X WorkloadIdentityResults}

\* updateCredential sends the secret alone, and is answered without binding
UpdateResponses == {r \in MutationResponses : ~Has(r, "binding")}

\* the resources of the observed calls: two of each kind, of one name
ObservedTagged ==
    {t \in Tagged :
        t.coll = "secrets" => /\ t.item.metadata.name = "s"
                              /\ Has(t.item.metadata, "labels")
                              /\ t.item.metadata.labels \in {LabelsAB, LabelsBC}}

\* the responses with an explicit binding, a Secret and a WorkloadIdentity
\* of one namespace and name
SharedNameResponses ==
    {[credentialsBindings |-> <<[metadata |-> Metadata("a", "s", "u1"),
                                  provider |-> [type |-> "aws"]]>>,
      secrets |-> <<[metadata |-> Labelled("a", "s", "u1", l)]>>,
      workloadIdentities |-> <<w>>] :
        <<l, w>> \in {LabelsAB, LabelsBC} \X WorkloadIdentityItems}

ObservedFetchResponses ==
    {ResponseOf(q) : q \in UNION {[1..n -> ObservedTagged] : n \in 0..MaxItems}}
        \cup SharedNameResponses

ObservedMutationResponses ==
    {r \in MutationResponses :
        /\ Has(r, "workloadIdentity") => ~Has(r, "binding")
        /\ Has(r, "binding") => Has(r.binding, "kind") /\ r.binding.metadata.uid \in {"u2", "u4"}
        /\ Has(r, "secret") => [coll |-> "secrets", item |-> [metadata |-> r.secret.metadata]] \in ObservedTagged}

ObservedUpdateResponses == {r \in ObservedMutationResponses : ~Has(r, "binding")}

Errors == {"TransportError", "ValidationError"}

----------------------------------------------------------------------------
(* The store *)

EmptyState ==
    [secretBindings |-> <<>>, secrets |-> <<>>, credentialsBindings |-> <<>>,
     workloadIdentities |-> <<>>, quotas |-> <<>>]

\* a mutant of resetState: the mappings are kept
keepState(st) == st

\* $reset(): each of the five mappings is assigned {}
resetState(st) ==
    [st EXCEPT !.secretBindings = <<>>, !.secrets = <<>>, !.credentialsBindings = <<>>,
               !.workloadIdentities = <<>>, !.quotas = <<>>]

\* collection?.forEach: a missing collection is not iterated
collection(data, c) == IF Has(data, c) THEN data[c] ELSE <<>>

\* items.forEach(item => { item.kind = kind; set(mapping, [key], item) })
RECURSIVE upsertAll(_, _, _)
upsertAll(m, items, kind) ==
    IF items = <<>> THEN m
    ELSE upsertAll(set(m, namespaceNameKey(Head(items).metadata), WithKind(Head(items), kind)),
                   Tail(items), kind)

\* quotas.forEach(item => set(state.quotas, [key], item))
RECURSIVE upsertQuotas(_, _)
upsertQuotas(m, items) ==
    IF items = <<>> THEN m
    ELSE upsertQuotas(set(m, namespaceNameKey(Head(items).metadata), Head(items)), Tail(items))

\* a mutant of secretVirtualBinding: the uid of the Secret is kept
secretVirtualBindingWithOwnerUid(secret, type) ==
    [kind |-> "Secret",
     metadata |-> secret.metadata,
     provider |-> [type |-> type],
     secretRef |-> [name |-> secret.metadata.name,
                    namespace |-> secret.metadata.namespace]]

\* the virtual binding of a Secret for one provider type
secretVirtualBinding(secret, type) ==
    [kind |-> "Secret",
     metadata |-> [secret.metadata EXCEPT !.uid = secret.metadata.uid \o "-" \o type],
     provider |-> [type |-> type],
     secretRef |-> [name |-> secret.metadata.name,
                    namespace |-> secret.metadata.namespace]]

\* the virtual binding of a WorkloadIdentity for one provider type
workloadIdentityVirtualBinding(item, type) ==
    [kind |-> "WorkloadIdentity",
     apiVersion |-> item.apiVersion,
     metadata |-> [item.metadata EXCEPT !.uid = item.metadata.uid \o "-" \o type],
     provider |-> [type |-> type],
     credentialsRef |-> [name |-> item.metadata.name,
                         namespace |-> item.metadata.namespace,
                         kind |-> "WorkloadIdentity",
                         apiVersion |-> item.apiVersion]]

\* a mutant of virtualBindingKey: the type is not part of the key
virtualBindingKeyWithoutType(key, type) == key

\* const bindingKey = `${key}/${type}`
virtualBindingKey(key, type) == key \o "/" \o type

\* providerTypesFromLabels(...).forEach(type => set(bindings, [bindingKey], ...))
RECURSIVE setSecretVirtualBindings(_, _, _)
setSecretVirtualBindings(bindings, secret, types) ==
    IF types = <<>> THEN bindings
    ELSE setSecretVirtualBindings(
             set(bindings, virtualBindingKey(namespaceNameKey(secret.metadata), Head(types)),
                 secretVirtualBinding(secret, Head(types))),
             secret, Tail(types))

RECURSIVE setWorkloadIdentityVirtualBindings(_, _, _)
setWorkloadIdentityVirtualBindings(bindings, item, types) ==
    IF types = <<>> THEN bindings
    ELSE setWorkloadIdentityVirtualBindings(
             set(bindings, virtualBindingKey(namespaceNameKey(item.metadata), Head(types)),
                 workloadIdentityVirtualBinding(item, Head(types))),
             item, Tail(types))

\* the virtual bindings of every Secret of a fetched list
RECURSIVE secretsVirtualBindings(_, _)
secretsVirtualBindings(bindings, items) ==
    IF items = <<>> THEN bindings
    ELSE secretsVirtualBindings(
             setSecretVirtualBindings(bindings, Head(items),
                 providerTypesFromLabels(labelEntries(Head(items).metadata))),
             Tail(items))

\* the virtual bindings of every WorkloadIdentity of a fetched list
RECURSIVE workloadIdentitiesVirtualBindings(_, _)
workloadIdentitiesVirtualBindings(bindings, items) ==
    IF items = <<>> THEN bindings
    ELSE workloadIdentitiesVirtualBindings(
             setWorkloadIdentityVirtualBindings(bindings, Head(items),
                 providerTypesFromLabels(labelEntries(Head(items).metadata))),
             Tail(items))

\* a mutant of setCredentials: every list is upserted before any virtual
\* binding is set
setCredentialsUpsertsFirst(st, data) ==
    LET cleared == resetState(st)
    IN  [secretBindings |->
            upsertAll(cleared.secretBindings, collection(data, "secretBindings"),
                      "SecretBinding"),
         secrets |->
            upsertAll(cleared.secrets, collection(data, "secrets"), "Secret"),
         credentialsBindings |->
            workloadIdentitiesVirtualBindings(
                secretsVirtualBindings(
                    upsertAll(cleared.credentialsBindings,
                              collection(data, "credentialsBindings"), "CredentialsBinding"),
                    collection(data, "secrets")),
                collection(data, "workloadIdentities")),
         workloadIdentities |->
            upsertAll(cleared.workloadIdentities, collection(data, "workloadIdentities"),
                      "WorkloadIdentity"),
         quotas |->
            upsertQuotas(cleared.quotas, collection(data, "quotas"))]

\* _setCredentials: $reset(), then the five collections in the order of the
\* code; the bindings mapping receives the virtual bindings of the secrets,
\* then the explicit bindings, then the virtual bindings of the workload
\* identities
setCredentials(st, data) ==
    LET cleared == resetState(st)
    IN  [secretBindings |->
            upsertAll(cleared.secretBindings, collection(data, "secretBindings"),
                      "SecretBinding"),
         secrets |->
            upsertAll(cleared.secrets, collection(data, "secrets"), "Secret"),
         credentialsBindings |->
            workloadIdentitiesVirtualBindings(
                upsertAll(
                    secretsVirtualBindings(cleared.credentialsBindings,
                                           collection(data, "secrets")),
                    collection(data, "credentialsBindings"), "CredentialsBinding"),
                collection(data, "workloadIdentities")),
         workloadIdentities |->
            upsertAll(cleared.workloadIdentities, collection(data, "workloadIdentities"),
                      "WorkloadIdentity"),
         quotas |->
            upsertQuotas(cleared.quotas, collection(data, "quotas"))]

\* _setCredentials statement by statement: the assignments it makes to the
\* store, in the order it makes them
Write(op, c, key, value) == [op |-> op, c |-> c, key |-> key, value |-> value]

upsertWrites(items, c, kind) ==
    [n \in 1..Len(items) |->
        Write("upsert", c, namespaceNameKey(items[n].metadata),
              IF c = "quotas" THEN items[n] ELSE WithKind(items[n], kind))]

secretWrites(item) ==
    LET key == namespaceNameKey(item.metadata)
        types == providerTypesFromLabels(labelEntries(item.metadata))
    IN  <<Write("upsert", "secrets", key, WithKind(item, "Secret"))>>
            \o [n \in 1..Len(types) |->
                   Write("virtual", "credentialsBindings", virtualBindingKey(key, types[n]),
                         secretVirtualBinding(item, types[n]))]

workloadIdentityWrites(item) ==
    LET key == namespaceNameKey(item.metadata)
        types == providerTypesFromLabels(labelEntries(item.metadata))
    IN  <<Write("upsert", "workloadIdentities", key, WithKind(item, "WorkloadIdentity"))>>
            \o [n \in 1..Len(types) |->
                   Write("virtual", "credentialsBindings", virtualBindingKey(key, types[n]),
                         workloadIdentityVirtualBinding(item, types[n]))]

RECURSIVE secretsWrites(_)
secretsWrites(items) ==
    IF items = <<>> THEN <<>> ELSE secretWrites(Head(items)) \o secretsWrites(Tail(items))

RECURSIVE workloadIdentitiesWrites(_)
workloadIdentitiesWrites(items) ==
    IF items = <<>> THEN <<>>
    ELSE workloadIdentityWrites(Head(items)) \o workloadIdentitiesWrites(Tail(items))

setCredentialsWrites(data) ==
    <<Write("reset", "all", "", NoValue)>>
        \o upsertWrites(collection(data, "secretBindings"), "secretBindings", "SecretBinding")
        \o secretsWrites(collection(data, "secrets"))
        \o upsertWrites(collection(data, "credentialsBindings"), "credentialsBindings",
                        "CredentialsBinding")
        \o workloadIdentitiesWrites(collection(data, "workloadIdentities"))
        \o upsertWrites(collection(data, "quotas"), "quotas", "none")

write(st, w) ==
    IF w.op = "reset" THEN resetState(st) ELSE [st EXCEPT ![w.c] = set(@, w.key, w.value)]

RECURSIVE writeAll(_, _)
writeAll(st, writes) ==
    IF writes = <<>> THEN st ELSE writeAll(write(st, Head(writes)), Tail(writes))

\* a mutant of isSecretVirtualBindingOf: the kind is not looked at
isBindingOf(e, key) == e.k = key \/ startsWith(e.k, key \o "/")

\* if (k === key || k.startsWith(`${key}/`)) and the record's kind is
\* 'Secret': delete state.credentialsBindings[k]
isSecretVirtualBindingOf(e, key) ==
    /\ e.k = key \/ startsWith(e.k, key \o "/")
    /\ e.v.kind = "Secret"

\* a mutant of removeSecretVirtualBindings: nothing is removed
keepSecretVirtualBindings(bindings, key) == bindings

\* a mutant of removeSecretVirtualBindings: the live list is walked by index
\* while records are deleted from it, so the record after a deleted one is
\* skipped
RECURSIVE removeWhileWalking(_, _, _)
removeWhileWalking(bindings, key, i) ==
    IF i > Len(bindings) THEN bindings
    ELSE IF bindings[i].v.kind = "Secret"
              /\ (bindings[i].k = key \/ startsWith(bindings[i].k, key \o "/"))
         THEN removeWhileWalking(SubSeq(bindings, 1, i - 1)
                                     \o SubSeq(bindings, i + 1, Len(bindings)),
                                 key, i + 1)
         ELSE removeWhileWalking(bindings, key, i + 1)

removeSkippingSecretVirtualBindings(bindings, key) == removeWhileWalking(bindings, key, 1)

\* Object.keys(state.credentialsBindings).forEach(k => ...): the keys are
\* listed before any is deleted
removeSecretVirtualBindings(bindings, key) ==
    LET keep(e) == ~isSecretVirtualBindingOf(e, key)
    IN  SelectSeq(bindings, keep)

\* if (binding) { ... }
updateBinding(st, data) ==
    IF ~Has(data, "binding") THEN st
    ELSE LET binding == data.binding
             key == namespaceNameKey(binding.metadata)
         IN  IF Has(binding, "kind") /\ binding.kind = "SecretBinding"
             THEN [st EXCEPT !.secretBindings = set(@, key, binding)]
             ELSE IF Has(binding, "kind") /\ binding.kind = "CredentialsBinding"
             THEN [st EXCEPT !.credentialsBindings = set(@, key, binding)]
             ELSE st

\* if (secret) { ... }
updateSecret(st, data) ==
    IF ~Has(data, "secret") THEN st
    ELSE LET secret == data.secret
             key == namespaceNameKey(secret.metadata)
         IN  [st EXCEPT
                !.secrets = set(@, key, secret),
                !.credentialsBindings =
                    setSecretVirtualBindings(
                        removeSecretVirtualBindings(@, key), secret,
                        providerTypesFromLabels(labelEntries(secret.metadata)))]

\* a mutant of updateCloudProviderCredential: the quotas are dropped, to be
\* fetched again
updateCloudProviderCredentialDroppingQuotas(st, data) ==
    [updateSecret(updateBinding(st, data), data) EXCEPT !.quotas = <<>>]

\* _updateCloudProviderCredential({ binding, secret })
updateCloudProviderCredential(st, data) == updateSecret(updateBinding(st, data), data)

----------------------------------------------------------------------------
(* The views *)

cloudProviderBindingList == Values(state.secretBindings) \o Values(state.credentialsBindings)

quotaList == Values(state.quotas)

secretBindingList == Values(state.secretBindings)

credentialsBindingList ==
    LET explicit(b) == b.kind = "CredentialsBinding"
    IN  SelectSeq(Values(state.credentialsBindings), explicit)

getSecret(ref) == get(state.secrets, namespaceNameKey(ref))

getWorkloadIdentity(ref) == get(state.workloadIdentities, namespaceNameKey(ref))

getQuota(ref) == get(state.quotas, namespaceNameKey(ref))

----------------------------------------------------------------------------
(* The calls *)

\* what the caller of createCredential / updateCredential passes
RequestSecret == [kind |-> "Secret", metadata |-> Labelled("a", "s", "u1", LabelsAB)]

RequestBinding ==
    [kind |-> "CredentialsBinding", metadata |-> Metadata("a", "s1", "u0"),
     provider |-> [type |-> "aws"]]

MutationRequests ==
    {[secret |-> RequestSecret], [binding |-> RequestBinding, secret |-> RequestSecret]}

DeleteRequests ==
    {[bindingKind |-> "CredentialsBinding", bindingNamespace |-> "a", bindingName |-> "s"]}

\* how a call ended: the api call that was rejected, the error the handler
\* threw and the message it gave appStore.setSuccess
Outcome(op, rejected, thrown, msg) ==
    [op |-> op, rejected |-> rejected, thrown |-> thrown, msg |-> msg]

Succeeded(op, msg) == Outcome(op, "none", "none", msg)

Rejected(op, call, err) == Outcome(op, call, err, "none")

Message(name, done) == "Cloud Provider credential " \o name \o " " \o done

\* const { data: { a, b } } = ...: the named properties of the body, the
\* others are dropped
destructure(data, names) == [f \in DOMAIN data \cap names |-> data[f]]

\* $reset()
reset == state' = resetState(state)

\* fetchCredentials, the data source answering with data
fetchCredentials(data) == state' = setCredentials(state, data)

\* a mutant of fetchCredentialsFailed: the store is not reset
fetchCredentialsFailedKeepsStore(err) == state' = state

\* fetchCredentials, the data source failing: catch (err) { $reset(); throw err }
fetchCredentialsFailed(err) == state' = resetState(state)

fetchCredentialsThrows(err) ==
    Rejected("fetchCredentials", "getCloudProviderCredentials", err)

\* createCredential, the data source answering with data
createCredential(params, data) ==
    state' = updateCloudProviderCredential(state, destructure(data, {"binding", "secret"}))

\* binding.metadata.name of a response without binding throws, after the
\* store was updated
createCredentialReturns(params, data) ==
    IF Has(data, "binding")
    THEN Succeeded("createCredential", Message(data.binding.metadata.name, "created"))
    ELSE Outcome("createCredential", "none", "TypeError", "none")

\* createCredential, the data source failing
createCredentialFailed(params, err) == state' = state

createCredentialThrows(params, err) ==
    Rejected("createCredential", "createCloudProviderCredential", err)

\* a mutant of updateCredential: the secret of the request is stored
updateCredentialFromRequest(params, data) ==
    state' = updateCloudProviderCredential(state, destructure(params, {"secret"}))

\* a mutant of updateCredential: a workload identity of the response is
\* stored too
updateCredentialWithWorkloadIdentity(params, data) ==
    state' = [updateCloudProviderCredential(state, destructure(data, {"secret"}))
                EXCEPT !.workloadIdentities =
                    IF Has(data, "workloadIdentity")
                    THEN set(@, namespaceNameKey(data.workloadIdentity.metadata),
                             data.workloadIdentity)
                    ELSE @]

\* updateCredential, the data source answering with data: only the secret of
\* the response is read
updateCredential(params, data) ==
    state' = updateCloudProviderCredential(state, destructure(data, {"secret"}))

\* binding?.metadata?.name || secret.metadata.name
updatedName(params) ==
    IF Has(params, "binding") THEN params.binding.metadata.name
    ELSE params.secret.metadata.name

updateCredentialReturns(params, data) ==
    Succeeded("updateCredential", Message(updatedName(params), "updated"))

\* updateCredential, the data source failing
updateCredentialFailed(params, err) == state' = state

updateCredentialThrows(params, err) ==
    Rejected("updateCredential", "updateCloudProviderCredential", err)

\* deleteCredential, the delete and the fetch after it both answered
deleteCredential(ref, data) == state' = setCredentials(state, data)

deleteCredentialReturns(ref, data) ==
    Succeeded("deleteCredential", Message(ref.bindingName, "deleted"))

\* a mutant of deleteCredentialFailed: the store is reset as after a failed fetch
deleteCredentialFailedResets(ref, err) == state' = resetState(state)

\* deleteCredential, the delete request failing: nothing is fetched
deleteCredentialFailed(ref, err) == state' = state

deleteCredentialThrows(ref, err) ==
    Rejected("deleteCredential", "deleteCloudProviderCredential", err)

\* deleteCredential, the delete answered and the fetch after it failing
deleteCredentialFetchFailed(ref, err) == state' = resetState(state)

deleteCredentialFetchThrows(ref, err) ==
    Rejected("deleteCredential", "getCloudProviderCredentials", err)

----------------------------------------------------------------------------
(* The realtime channel gateway *)

\* no gateway created
NoGateway == [created |-> FALSE]

Origins ==
    {"https://allowed.example.org", "https://forbidden.example.org",
     "https://any.example.org"}

\* what IO_ALLOWED_ORIGINS can name; the empty list is the variable unset
AllowLists == SUBSET {"https://allowed.example.org", "https://other.example.org"}

\* a mutant of accepts: without an allow-list no origin is accepted
acceptsListed(allowed, origin) == origin \in allowed

\* the origin check of the gateway
accepts(allowed, origin) == allowed = {} \/ origin \in allowed

\* createAgent('io') with IO_ALLOWED_ORIGINS as set in the environment
createAgent ==
    /\ ~gateway.created
    /\ \E allowed \in AllowLists :
          gateway' = [created |-> TRUE, allowed |-> allowed, sockets |-> <<>>]

\* agent.connect({ originHeader }): the socket is connected, or ends in a
\* connect_error
connect ==
    /\ gateway.created
    /\ Len(gateway.sockets) < MaxSockets
    /\ \E origin \in Origins :
          gateway' = [gateway EXCEPT !.sockets =
              Append(@, [origin |-> origin,
                         event |-> IF accepts(gateway.allowed, origin)
                                   THEN "connect" ELSE "connect_error",
                         connected |-> accepts(gateway.allowed, origin)])]

\* agent.close(); delete process.env.IO_ALLOWED_ORIGINS
close ==
    /\ gateway.created
    /\ gateway' = NoGateway


----------------------------------------------------------------------------
(* The specifications *)

NoOutcome == Succeeded("none", "none")

NoExchange == [request |-> NoValue, response |-> NoValue]

\* what the caller and the data source saw of the step, when they are
\* observed: how the call ended, the request and the response, and the store
\* the call found
Observe(observed, outcome, request, response, found) ==
    /\ last' = IF observed THEN outcome ELSE NoOutcome
    /\ io' = IF observed THEN [request |-> request, response |-> response]
             ELSE NoExchange
    /\ prior' = IF observed THEN found ELSE NoValue
    /\ UNCHANGED <<calls, applied, sink, gateway>>

Init ==
    /\ state = EmptyState
    /\ last = NoOutcome
    /\ io = NoExchange
    /\ prior = NoValue
    /\ calls = <<>>
    /\ applied = <<>>
    /\ sink = <<>>
    /\ gateway = NoGateway

\* a successful fetch replaces the store whatever it found: the store it
\* found is not kept
Step(observed, requests, fetched, created, updated) ==
    \/ reset /\ Observe(observed, Succeeded("$reset", "none"), NoValue, NoValue, NoValue)
    \/ \E data \in fetched :
          /\ fetchCredentials(data)
          /\ Observe(observed, Succeeded("fetchCredentials", "none"), NoValue, data, NoValue)
    \/ \E err \in Errors :
          /\ fetchCredentialsFailed(err)
          /\ Observe(observed, fetchCredentialsThrows(err), NoValue, [error |-> err], state)
    \/ \E params \in requests, data \in created :
          /\ createCredential(params, data)
          /\ Observe(observed, createCredentialReturns(params, data), params, data, state)
    \/ \E params \in requests, err \in Errors :
          /\ createCredentialFailed(params, err)
          /\ Observe(observed, createCredentialThrows(params, err), params, [error |-> err], state)
    \/ \E params \in requests, data \in updated :
          /\ updateCredential(params, data)
          /\ Observe(observed, updateCredentialReturns(params, data), params, data, state)
    \/ \E params \in requests, err \in Errors :
          /\ updateCredentialFailed(params, err)
          /\ Observe(observed, updateCredentialThrows(params, err), params, [error |-> err], state)
    \/ \E ref \in DeleteRequests, data \in fetched :
          /\ deleteCredential(ref, data)
          /\ Observe(observed, deleteCredentialReturns(ref, data), ref, data, NoValue)
    \/ \E ref \in DeleteRequests, err \in Errors :
          /\ deleteCredentialFailed(ref, err)
          /\ Observe(observed, deleteCredentialThrows(ref, err), ref, [error |-> err], state)
    \/ \E ref \in DeleteRequests, err \in Errors :
          /\ deleteCredentialFetchFailed(ref, err)
          /\ Observe(observed, deleteCredentialFetchThrows(ref, err), ref, [error |-> err], state)

\* the store under every call, with all the resources; nothing observed
Next ==
    Step(FALSE, {[secret |-> RequestSecret]}, FetchResponses, MutationResponses,
         UpdateResponses)

Spec == Init /\ [][Next]_vars

\* the store together with what the caller and the data source saw of the
\* last call, with the resources of one name
NextObserved ==
    Step(TRUE, MutationRequests, ObservedFetchResponses, ObservedMutationResponses,
         ObservedUpdateResponses)

SpecObserved == Init /\ [][NextObserved]_vars

\* the gateway alone
NextGateway ==
    /\ \/ createAgent
       \/ connect
       \/ close
    /\ UNCHANGED <<state, last, io, prior, calls, applied, sink>>

SpecGateway == Init /\ [][NextGateway]_vars

----------------------------------------------------------------------------
(* The store with calls in flight.  An async handler runs to its first await
   when it is called and from one await to the next when the awaited promise
   settles; nothing else runs in between.  calls holds every call started, in
   the order they were started, with the api request it waits for; applied
   holds what was applied to the store, in the order it was applied; sink
   holds the messages given to appStore.setSuccess. *)

Call(op, request, awaits) ==
    [op |-> op, request |-> request, awaits |-> awaits, issued |-> <<awaits>>,
     thrown |-> "none"]

Awaiting(i, op, api) ==
    /\ i \in 1..Len(calls)
    /\ calls[i].op = op
    /\ calls[i].awaits = api

Resolve(i) == calls' = [calls EXCEPT ![i].awaits = "resolved"]

Reject(i, err) == calls' = [calls EXCEPT ![i].awaits = "rejected", ![i].thrown = err]

Applied(i, what, data) == applied' = Append(applied, [call |-> i, what |-> what, data |-> data])

\* appStore.setSuccess(msg), with the number of applications to the store
\* that came before it
Notify(i, msg) == sink' = Append(sink, [call |-> i, msg |-> msg, after |-> Len(applied')])

\* the handler is called and runs to its first await: the request is sent
start(op, request, api) ==
    /\ Len(calls) < MaxStarted
    /\ calls' = Append(calls, Call(op, request, api))
    /\ UNCHANGED <<state, applied, sink>>

\* the resources of the calls in flight: a Secret with a quota, an explicit
\* binding, and a binding, a Secret and a WorkloadIdentity of one name
AsyncFetchResponses ==
    {[secrets |-> <<[metadata |-> Labelled("a", "s", "u1", LabelsAB)]>>,
      quotas |-> <<[metadata |-> Metadata("a", "s", "q1")]>>],
     [credentialsBindings |-> <<[metadata |-> Metadata("a", "s", "u1"),
                                  provider |-> [type |-> "aws"]]>>]}
        \cup {r \in SharedNameResponses :
                 /\ r.secrets[1].metadata.labels = LabelsBC
                 /\ r.workloadIdentities[1].metadata.labels = LabelsAB}

AsyncMutationResponses ==
    {r \in ObservedMutationResponses :
        /\ ~Has(r, "workloadIdentity")
        /\ Has(r, "binding") => r.binding.metadata.uid = "u2"
        /\ Has(r, "secret") /\ r.secret.metadata.labels = LabelsBC}

AsyncUpdateResponses == {r \in AsyncMutationResponses : ~Has(r, "binding")}

AsyncErrors == {"TransportError"}

callFetchCredentials == start("fetchCredentials", NoValue, "getCloudProviderCredentials")

callCreateCredential ==
    \E params \in {[binding |-> RequestBinding, secret |-> RequestSecret]} :
        start("createCredential", params, "createCloudProviderCredential")

callUpdateCredential ==
    \E params \in {[secret |-> RequestSecret]} :
        start("updateCredential", params, "updateCloudProviderCredential")

callDeleteCredential ==
    \E ref \in DeleteRequests :
        start("deleteCredential", ref, "deleteCloudProviderCredential")

\* $reset() is synchronous
callReset ==
    /\ Len(applied) < MaxStarted
    /\ reset
    /\ Applied(0, "reset", NoValue)
    /\ UNCHANGED <<calls, sink>>

fetchCredentialsAnswered ==
    \E i \in 1..Len(calls), data \in AsyncFetchResponses :
        /\ Awaiting(i, "fetchCredentials", "getCloudProviderCredentials")
        /\ fetchCredentials(data)
        /\ Applied(i, "fetched", data)
        /\ Resolve(i)
        /\ UNCHANGED sink

fetchCredentialsRejected ==
    \E i \in 1..Len(calls), err \in AsyncErrors :
        /\ Awaiting(i, "fetchCredentials", "getCloudProviderCredentials")
        /\ fetchCredentialsFailed(err)
        /\ Applied(i, "reset", NoValue)
        /\ Reject(i, fetchCredentialsThrows(err).thrown)
        /\ UNCHANGED sink

\* the response is applied and the message given in one run of the handler;
\* without a binding in the response the message is not reached
createCredentialAnswered ==
    \E i \in 1..Len(calls), data \in AsyncMutationResponses :
        /\ Awaiting(i, "createCredential", "createCloudProviderCredential")
        /\ createCredential(calls[i].request, data)
        /\ Applied(i, "created", data)
        /\ LET outcome == createCredentialReturns(calls[i].request, data)
           IN  IF outcome.thrown = "none"
               THEN Resolve(i) /\ Notify(i, outcome.msg)
               ELSE Reject(i, outcome.thrown) /\ UNCHANGED sink

createCredentialRejected ==
    \E i \in 1..Len(calls), err \in AsyncErrors :
        /\ Awaiting(i, "createCredential", "createCloudProviderCredential")
        /\ createCredentialFailed(calls[i].request, err)
        /\ Reject(i, createCredentialThrows(calls[i].request, err).thrown)
        /\ UNCHANGED <<applied, sink>>

updateCredentialAnswered ==
    \E i \in 1..Len(calls), data \in AsyncUpdateResponses :
        /\ Awaiting(i, "updateCredential", "updateCloudProviderCredential")
        /\ updateCredential(calls[i].request, data)
        /\ Applied(i, "updated", data)
        /\ Resolve(i)
        /\ Notify(i, updateCredentialReturns(calls[i].request, data).msg)

updateCredentialRejected ==
    \E i \in 1..Len(calls), err \in AsyncErrors :
        /\ Awaiting(i, "updateCredential", "updateCloudProviderCredential")
        /\ updateCredentialFailed(calls[i].request, err)
        /\ Reject(i, updateCredentialThrows(calls[i].request, err).thrown)
        /\ UNCHANGED <<applied, sink>>

\* a mutant of deleteCredentialAnswered: the binding deleted is removed from
\* the store when the delete request is answered
deleteCredentialRemovesBinding(ref) ==
    state' = [state EXCEPT !.credentialsBindings =
                 delete(@, namespaceNameKey([namespace |-> ref.bindingNamespace,
                                             name |-> ref.bindingName]))]

\* deleteCredential, the delete request answered: the store is not touched
deleteCredentialAnswered(ref) == state' = state

\* the delete request answered: fetchCredentials() is called and runs to
\* its await
deleteCredentialDeleted ==
    \E i \in 1..Len(calls) :
        /\ Awaiting(i, "deleteCredential", "deleteCloudProviderCredential")
        /\ deleteCredentialAnswered(calls[i].request)
        /\ calls' = [calls EXCEPT ![i].awaits = "getCloudProviderCredentials",
                                   ![i].issued = Append(@, "getCloudProviderCredentials")]
        /\ UNCHANGED <<applied, sink>>

deleteCredentialRejected ==
    \E i \in 1..Len(calls), err \in AsyncErrors :
        /\ Awaiting(i, "deleteCredential", "deleteCloudProviderCredential")
        /\ deleteCredentialFailed(calls[i].request, err)
        /\ Reject(i, deleteCredentialThrows(calls[i].request, err).thrown)
        /\ UNCHANGED <<applied, sink>>

\* the fetch inside deleteCredential answered: the response is applied, and
\* deleteCredential goes on when the promise of fetchCredentials has settled
deleteCredentialFetched ==
    \E i \in 1..Len(calls), data \in AsyncFetchResponses :
        /\ Awaiting(i, "deleteCredential", "getCloudProviderCredentials")
        /\ deleteCredential(calls[i].request, data)
        /\ Applied(i, "fetched", data)
        /\ calls' = [calls EXCEPT ![i].awaits = "fetchCredentials"]
        /\ UNCHANGED sink

deleteCredentialFetchRejected ==
    \E i \in 1..Len(calls), err \in AsyncErrors :
        /\ Awaiting(i, "deleteCredential", "getCloudProviderCredentials")
        /\ deleteCredentialFetchFailed(calls[i].request, err)
        /\ Applied(i, "reset", NoValue)
        /\ Reject(i, deleteCredentialFetchThrows(calls[i].request, err).thrown)
        /\ UNCHANGED sink

\* a mutant of deleteCredentialNotifies: no message is given
deleteCredentialSilent(i) == UNCHANGED sink

\* appStore.setSuccess after await fetchCredentials()
deleteCredentialNotifies(i) ==
    Notify(i, deleteCredentialReturns(calls[i].request, NoValue).msg)

deleteCredentialResumed ==
    \E i \in 1..Len(calls) :
        /\ Awaiting(i, "deleteCredential", "fetchCredentials")
        /\ UNCHANGED <<state, applied>>
        /\ deleteCredentialNotifies(i)
        /\ Resolve(i)

NextAsync ==
    /\ \/ callFetchCredentials
       \/ callCreateCredential
       \/ callUpdateCredential
       \/ callDeleteCredential
       \/ callReset
       \/ fetchCredentialsAnswered
       \/ fetchCredentialsRejected
       \/ createCredentialAnswered
       \/ createCredentialRejected
       \/ updateCredentialAnswered
       \/ updateCredentialRejected
       \/ deleteCredentialDeleted
       \/ deleteCredentialRejected
       \/ deleteCredentialFetched
       \/ deleteCredentialFetchRejected
       \/ deleteCredentialResumed
    /\ UNCHANGED <<last, io, prior, gateway>>

SpecAsync == Init /\ [][NextAsync]_vars

----------------------------------------------------------------------------
(* What the claims speak of *)

\* the capability tags of a stored Secret or WorkloadIdentity
Tags(owner) ==
    LET types == providerTypesFromLabels(labelEntries(owner.metadata))
    IN  {types[i] : i \in 1..Len(types)}

Entries(m) == {m[i] : i \in 1..Len(m)}

AllEmpty(st) == \A c \in Collections : st[c] = <<>>

\* the binding stored under key is a virtual binding of that kind for tag t
IsVirtualFor(st, key, kind, t) ==
    LET b == get(st.credentialsBindings, key \o "/" \o t)
    IN  /\ Has(b, "kind") /\ b.kind = kind
        /\ b.provider.type = t

CallSucceeded(ops) == last.op \in ops /\ last.rejected = "none"

\* C1: every capability tag of every stored Secret and WorkloadIdentity has
\* its virtual binding under ownerKey/tag, of the owner's kind and with
\* provider.type the tag
C1_EveryTagHasItsBinding ==
    /\ \A e \in Entries(state.secrets) : \A t \in Tags(e.v) :
          IsVirtualFor(state, e.k, "Secret", t)
    /\ \A e \in Entries(state.workloadIdentities) : \A t \in Tags(e.v) :
          IsVirtualFor(state, e.k, "WorkloadIdentity", t)

\* C2: after a fetch whose data-source call failed, all five mappings are
\* empty and the error thrown is the error of the data source
C2_FailedFetchLeavesNothing ==
    last.rejected = "getCloudProviderCredentials" =>
        /\ AllEmpty(state)
        /\ last.thrown = io.response.error
        /\ last.msg = "none"

\* C2, its case: a fetch failed on a store that held records
C2_Witness ==
    /\ last.op = "fetchCredentials"
    /\ last.rejected = "getCloudProviderCredentials"
    /\ last.thrown = "ValidationError"
    /\ \A c \in Collections : prior[c] # <<>>

\* the keys under ownerKey/ whose binding is of that kind
OwnedKeys(st, key, kind) ==
    {e.k : e \in {x \in Entries(st.credentialsBindings) :
                    x.v.kind = kind /\ startsWith(x.k, key \o "/")}}

TagKeys(owner) == {namespaceNameKey(owner.metadata) \o "/" \o t : t \in Tags(owner)}

\* the keys ownerKey/tag of the tags the stored Secret had and the returned
\* Secret does not have
DroppedKeys(secret) ==
    LET key == namespaceNameKey(secret.metadata)
        stored == get(prior.secrets, key)
    IN  IF Has(stored, "metadata") THEN TagKeys(stored) \ TagKeys(secret) ELSE {}

\* C3: after a create or update that returned a stored Secret with
\* other tags, there is an entry under ownerKey/tag for every tag of the
\* returned Secret and no entry at all under ownerKey/tag for a tag it lost
C3_NoEntryUnderDroppedTag ==
    (CallSucceeded({"createCredential", "updateCredential"}) /\ Has(io.response, "secret")) =>
        LET secret == io.response.secret
        IN  /\ TagKeys(secret) \subseteq KeySet(state.credentialsBindings)
            /\ DroppedKeys(secret) \cap KeySet(state.credentialsBindings) = {}

\* what holds of C3: after a create or update that returned a Secret, the keys
\* of that Secret's virtual bindings (kind 'Secret') are exactly ownerKey/tag for
\* the tags of the returned Secret, whatever its tags were before; an entry
\* left under ownerKey/tag for a tag it lost is the virtual binding of a
\* WorkloadIdentity of the same namespace and name, as the call found it
C3_VirtualKeysFollowLabels ==
    (CallSucceeded({"createCredential", "updateCredential"}) /\ Has(io.response, "secret")) =>
        LET secret == io.response.secret
        IN  /\ OwnedKeys(state, namespaceNameKey(secret.metadata), "Secret") = TagKeys(secret)
            /\ \A t \in Tags(secret) :
                  IsVirtualFor(state, namespaceNameKey(secret.metadata), "Secret", t)
            /\ \A k \in DroppedKeys(secret) \cap KeySet(state.credentialsBindings) :
                  /\ get(state.credentialsBindings, k).kind = "WorkloadIdentity"
                  /\ get(state.credentialsBindings, k) = get(prior.credentialsBindings, k)

\* the case of C3 without a WorkloadIdentity of that name: a Secret stored with the tags aws and gcp was updated to gcp
\* and azure; the store holds a/s/gcp and a/s/azure and no a/s/aws
C3_Witness ==
    /\ CallSucceeded({"updateCredential"})
    /\ Has(io.response, "secret")
    /\ Has(get(prior.secrets, "a/s"), "metadata")
    /\ Tags(get(prior.secrets, "a/s")) = {"aws", "gcp"}
    /\ OwnedKeys(prior, "a/s", "Secret") = {"a/s/aws", "a/s/gcp"}
    /\ namespaceNameKey(io.response.secret.metadata) = "a/s"
    /\ Tags(io.response.secret) = {"gcp", "azure"}
    /\ {"a/s/gcp", "a/s/azure"} \subseteq KeySet(state.credentialsBindings)
    /\ "a/s/aws" \notin KeySet(state.credentialsBindings)

\* the binding a successful createCredential wrote under key, if any
WroteBinding(key) ==
    /\ last.op = "createCredential"
    /\ Has(io.response, "binding")
    /\ Has(io.response.binding, "kind")
    /\ io.response.binding.kind = "CredentialsBinding"
    /\ namespaceNameKey(io.response.binding.metadata) = key

\* C4: re-deriving the virtual bindings of a Secret in any store leaves every
\* explicit CredentialsBinding in place and unchanged and removes only records
\* of kind 'Secret'; so after a create or update that returned a Secret every
\* explicit CredentialsBinding is in place and unchanged (one the same
\* response returned is the returned one)
C4_ExplicitBindingsSurvive ==
    /\ \A x \in SecretResults :
          LET derived == updateSecret(state, [secret |-> x]).credentialsBindings
          IN  \A e \in Entries(state.credentialsBindings) :
                  /\ e.v.kind = "CredentialsBinding" => get(derived, e.k) = e.v
                  /\ e.k \notin KeySet(derived) => e.v.kind = "Secret"
    /\ (CallSucceeded({"createCredential", "updateCredential"}) /\ Has(io.response, "secret")) =>
           /\ \A e \in Entries(prior.credentialsBindings) :
                 e.v.kind = "CredentialsBinding" =>
                     get(state.credentialsBindings, e.k) =
                         IF WroteBinding(e.k) THEN io.response.binding ELSE e.v
           /\ \A e \in Entries(prior.credentialsBindings) :
                 e.k \notin KeySet(state.credentialsBindings) => e.v.kind = "Secret"

\* C4, its case: an explicit binding a/s and a virtual binding a/s/aws of the
\* Secret a/s; the Secret is updated and loses the tag aws
C4_Witness ==
    /\ CallSucceeded({"updateCredential"})
    /\ Has(io.response, "secret")
    /\ namespaceNameKey(io.response.secret.metadata) = "a/s"
    /\ Has(get(prior.credentialsBindings, "a/s"), "kind")
    /\ get(prior.credentialsBindings, "a/s").kind = "CredentialsBinding"
    /\ "a/s/aws" \in OwnedKeys(prior, "a/s", "Secret")
    /\ "a/s/aws" \notin KeySet(state.credentialsBindings)
    /\ get(state.credentialsBindings, "a/s") = get(prior.credentialsBindings, "a/s")

\* the number of '/' in a key
Slashes(key) == Cardinality({i \in 1..Len(key) : SubSeq(key, i, i) = "/"})

RECURSIVE LastWithKey(_, _)
\* the last item of a list with that key
LastWithKey(items, key) ==
    IF namespaceNameKey(items[Len(items)].metadata) = key THEN items[Len(items)]
    ELSE LastWithKey(SubSeq(items, 1, Len(items) - 1), key)

ListItems(data, c) == {collection(data, c)[i] : i \in 1..Len(collection(data, c))}

\* C5: an explicit binding is stored under namespace/name and a virtual
\* binding under namespace/name/type, and after a fetch that returned an
\* explicit CredentialsBinding and a Secret of the same namespace and name,
\* the store holds the explicit record under namespace/name and, for every
\* tag of the Secret, the virtual binding derived from the Secret
C5_ExplicitAndSecretVirtualPresent ==
    /\ \A e \in Entries(state.credentialsBindings) :
          IF e.v.kind = "CredentialsBinding"
          THEN e.k = namespaceNameKey(e.v.metadata) /\ Slashes(e.k) = 1
          ELSE e.k = namespaceNameKey(e.v.metadata) \o "/" \o e.v.provider.type
    /\ CallSucceeded({"fetchCredentials", "deleteCredential"}) =>
          \A b \in ListItems(io.response, "credentialsBindings") :
          \A x \in ListItems(io.response, "secrets") :
              namespaceNameKey(b.metadata) = namespaceNameKey(x.metadata) =>
                  LET key == namespaceNameKey(x.metadata)
                  IN  /\ get(state.credentialsBindings, key) =
                            WithKind(LastWithKey(io.response.credentialsBindings, key),
                                     "CredentialsBinding")
                      /\ \A t \in Tags(LastWithKey(io.response.secrets, key)) :
                            IsVirtualFor(state, key, "Secret", t)

\* what holds of C5: an explicit binding is stored under namespace/name and a
\* virtual binding under namespace/name/type, so neither takes the other's
\* key: the explicit bindings of a fetch response and a virtual binding for
\* every tag of its Secrets (derived from the Secret, or from a
\* WorkloadIdentity of the same namespace and name), and the binding and the
\* Secret of a create or update response, are all in the store after it
C5_KeySpacesApart ==
    /\ \A e \in Entries(state.credentialsBindings) :
          IF e.v.kind = "CredentialsBinding"
          THEN e.k = namespaceNameKey(e.v.metadata) /\ Slashes(e.k) = 1
          ELSE /\ e.v.kind \in {"Secret", "WorkloadIdentity"}
               /\ e.k = namespaceNameKey(e.v.metadata) \o "/" \o e.v.provider.type
               /\ Slashes(e.k) = 2
    /\ CallSucceeded({"fetchCredentials", "deleteCredential"}) =>
          /\ \A b \in ListItems(io.response, "credentialsBindings") :
                get(state.credentialsBindings, namespaceNameKey(b.metadata)) =
                    WithKind(LastWithKey(io.response.credentialsBindings,
                                         namespaceNameKey(b.metadata)),
                             "CredentialsBinding")
          /\ \A x \in ListItems(io.response, "secrets") :
                TagKeys(LastWithKey(io.response.secrets, namespaceNameKey(x.metadata)))
                    \subseteq OwnedKeys(state, namespaceNameKey(x.metadata), "Secret")
                        \cup OwnedKeys(state, namespaceNameKey(x.metadata), "WorkloadIdentity")
    /\ CallSucceeded({"createCredential", "updateCredential"}) =>
          /\ \A key \in {"a/s", "a/s1"} :
                WroteBinding(key) => get(state.credentialsBindings, key) = io.response.binding
          /\ Has(io.response, "secret") =>
                TagKeys(io.response.secret) \subseteq
                    OwnedKeys(state, namespaceNameKey(io.response.secret.metadata), "Secret")

\* the case of C5 without a WorkloadIdentity of that name: a fetch returned the explicit binding a/s and the Secret a/s
\* with the tag aws; the store holds a/s, explicit, and a/s/aws, virtual
C5_Witness ==
    /\ CallSucceeded({"fetchCredentials"})
    /\ Has(io.response, "credentialsBindings") /\ Has(io.response, "secrets")
    /\ "aws" \in Tags(io.response.secrets[1])
    /\ Has(get(state.credentialsBindings, "a/s"), "kind")
    /\ get(state.credentialsBindings, "a/s").kind = "CredentialsBinding"
    /\ Has(get(state.credentialsBindings, "a/s/aws"), "kind")
    /\ get(state.credentialsBindings, "a/s/aws").kind = "Secret"

\* the same keys with the same records, in whatever order
SameMapping(m1, m2) == Len(m1) = Len(m2) /\ Entries(m1) = Entries(m2)

SameStore(s1, s2) == \A c \in Collections : SameMapping(s1[c], s2[c])

\* C6: applying the response of the last successful call a second time leaves
\* every mapping with the same keys and the same records: the secret (and
\* binding) of a create or update through _updateCloudProviderCredential, a
\* fetch response through _setCredentials
C6_SynthesisIdempotent ==
    /\ CallSucceeded({"createCredential"}) =>
          SameStore(updateCloudProviderCredential(state,
                        destructure(io.response, {"binding", "secret"})), state)
    /\ CallSucceeded({"updateCredential"}) =>
          SameStore(updateCloudProviderCredential(state,
                        destructure(io.response, {"secret"})), state)
    /\ CallSucceeded({"fetchCredentials", "deleteCredential"}) =>
          setCredentials(state, io.response) = state

\* C6, its case: a Secret with tags was applied to a store that held other
\* virtual bindings of it, and applying it again moves keys without changing
\* any record
C6_Witness ==
    /\ CallSucceeded({"updateCredential"})
    /\ Has(io.response, "secret")
    /\ Tags(io.response.secret) # {}
    /\ OwnedKeys(prior, "a/s", "Secret") # OwnedKeys(state, "a/s", "Secret")
    /\ LET again == updateCloudProviderCredential(state, destructure(io.response, {"secret"}))
       IN  /\ SameStore(again, state)
           /\ Keys(again.credentialsBindings) # Keys(state.credentialsBindings)

UniqueKeys(m) == \A i, j \in 1..Len(m) : m[i].k = m[j].k => i = j

\* the record the store keeps of an item of a fetched collection
Stored(c, item) ==
    CASE c = "secretBindings" -> WithKind(item, "SecretBinding")
      [] c = "secrets" -> WithKind(item, "Secret")
      [] c = "credentialsBindings" -> WithKind(item, "CredentialsBinding")
      [] c = "workloadIdentities" -> WithKind(item, "WorkloadIdentity")
      [] c = "quotas" -> item

\* C7: in each of the five mappings a key holds one record, and it is the
\* last one inserted under it: the last item of that key in the fetched list,
\* and the binding and the secret of a later create or update response
C7_LastWriteWins ==
    /\ \A c \in Collections : UniqueKeys(state[c])
    /\ CallSucceeded({"fetchCredentials", "deleteCredential"}) =>
          \A c \in Collections : \A item \in ListItems(io.response, c) :
              get(state[c], namespaceNameKey(item.metadata)) =
                  Stored(c, LastWithKey(io.response[c], namespaceNameKey(item.metadata)))
    /\ (CallSucceeded({"createCredential"}) /\ Has(io.response, "binding")
            /\ Has(io.response.binding, "kind")) =>
          LET binding == io.response.binding
          IN  get(IF binding.kind = "SecretBinding" THEN state.secretBindings
                  ELSE state.credentialsBindings,
                  namespaceNameKey(binding.metadata)) = binding
    /\ (CallSucceeded({"createCredential", "updateCredential"})
            /\ Has(io.response, "secret")) =>
          get(state.secrets, namespaceNameKey(io.response.secret.metadata)) =
              io.response.secret

\* C7, its case: a fetched list held two different items of one key, and the
\* mapping holds one record
C7_Witness ==
    /\ CallSucceeded({"fetchCredentials"})
    /\ Has(io.response, "quotas")
    /\ Len(io.response.quotas) = 2
    /\ io.response.quotas[1] # io.response.quotas[2]
    /\ namespaceNameKey(io.response.quotas[1].metadata) =
           namespaceNameKey(io.response.quotas[2].metadata)
    /\ Len(state.quotas) = 1
    /\ state.quotas[1].v = io.response.quotas[2]

\* C8: when the create, update or delete request fails, the store is the
\* store the call found, the error thrown is the error of the data source,
\* and no message is given
C8_FailedMutationLeavesStore ==
    last.rejected \in {"createCloudProviderCredential", "updateCloudProviderCredential",
                       "deleteCloudProviderCredential"} =>
        /\ state = prior
        /\ last.thrown = io.response.error
        /\ last.msg = "none"

\* C8, its case: a delete request failed on a store that held records
C8_Witness ==
    /\ last.op = "deleteCredential"
    /\ last.rejected = "deleteCloudProviderCredential"
    /\ last.thrown = "TransportError"
    /\ state.secrets # <<>>
    /\ state.credentialsBindings # <<>>

ExplicitBindings(st) ==
    {e \in Entries(st.credentialsBindings) : e.v.kind = "CredentialsBinding"}

\* C9: after a successful create or update, the secret, its virtual bindings
\* and (create) the binding in the store are those of the response; what the
\* response does not carry is left as the call found it, whatever the request
\* carried
C9_StoreHoldsResponse ==
    CallSucceeded({"createCredential", "updateCredential"}) =>
        /\ IF Has(io.response, "secret")
           THEN LET secret == io.response.secret
                    key == namespaceNameKey(secret.metadata)
                IN  /\ get(state.secrets, key) = secret
                    /\ OwnedKeys(state, key, "Secret") = TagKeys(secret)
                    /\ \A k \in TagKeys(secret) :
                          LET b == get(state.credentialsBindings, k)
                          IN  /\ b.metadata.labels = secret.metadata.labels
                              /\ b.metadata.uid = secret.metadata.uid \o "-" \o b.provider.type
                              /\ b.secretRef.name = secret.metadata.name
           ELSE /\ state.secrets = prior.secrets
                /\ \A e \in Entries(state.credentialsBindings) :
                      e.v.kind = "Secret" => get(prior.credentialsBindings, e.k) = e.v
        /\ IF last.op = "createCredential" /\ Has(io.response, "binding")
                /\ Has(io.response.binding, "kind")
           THEN LET binding == io.response.binding
                IN  get(IF binding.kind = "SecretBinding" THEN state.secretBindings
                        ELSE state.credentialsBindings,
                        namespaceNameKey(binding.metadata)) = binding
           ELSE /\ state.secretBindings = prior.secretBindings
                /\ ExplicitBindings(state) = ExplicitBindings(prior)

\* C9, its case: the request carried the Secret a/s with the tags aws and gcp
\* and the binding a/s1, the response the Secret a/s with the tags gcp and
\* azure; the store holds the returned Secret and no binding a/s1
C9_Witness ==
    /\ CallSucceeded({"updateCredential"})
    /\ Has(io.request, "binding")
    /\ Has(io.response, "secret")
    /\ Tags(io.request.secret) = {"aws", "gcp"}
    /\ Tags(io.response.secret) = {"gcp", "azure"}
    /\ get(state.secrets, "a/s") = io.response.secret
    /\ "a/s/azure" \in KeySet(state.credentialsBindings)
    /\ "a/s/aws" \notin KeySet(state.credentialsBindings)
    /\ "a/s1" \notin KeySet(state.credentialsBindings)

\* C10 as claimed: a WorkloadIdentity carried by a create or update response
\* is stored, and its virtual bindings are those of its current tags
C10_WorkloadIdentityResynthesized ==
    (CallSucceeded({"createCredential", "updateCredential"})
        /\ Has(io.response, "workloadIdentity")) =>
        LET w == io.response.workloadIdentity
            key == namespaceNameKey(w.metadata)
        IN  /\ get(state.workloadIdentities, key) = w
            /\ OwnedKeys(state, key, "WorkloadIdentity") = TagKeys(w)

\* C10 amended: a WorkloadIdentity carried by a create or update response is
\* not read: state.workloadIdentities is as the call found it, and every
\* virtual binding of kind 'WorkloadIdentity' in the store is one the call
\* found, unchanged
C10_WorkloadIdentityIgnored ==
    (CallSucceeded({"createCredential", "updateCredential"})
        /\ Has(io.response, "workloadIdentity")) =>
        /\ state.workloadIdentities = prior.workloadIdentities
        /\ \A e \in Entries(state.credentialsBindings) :
              e.v.kind = "WorkloadIdentity" => get(prior.credentialsBindings, e.k) = e.v

\* C10, its case: the store holds the WorkloadIdentity a/s with the tags aws
\* and gcp, an update response carries it with the tags gcp and azure, and the
\* store still holds the old one and its old virtual bindings
C10_Witness ==
    /\ CallSucceeded({"updateCredential"})
    /\ Has(io.response, "workloadIdentity")
    /\ Tags(io.response.workloadIdentity) = {"gcp", "azure"}
    /\ Has(get(state.workloadIdentities, "a/s"), "metadata")
    /\ Tags(get(state.workloadIdentities, "a/s")) = {"aws", "gcp"}
    /\ OwnedKeys(state, "a/s", "WorkloadIdentity") = {"a/s/aws", "a/s/gcp"}

\* the places in applied of what call i applied to the store
AppliedBy(i) == {n \in 1..Len(applied) : applied[n].call = i}

\* what call i applied, in order
WhatApplied(i) ==
    LET by(e) == e.call = i
        mine == SelectSeq(applied, by)
    IN  [n \in 1..Len(mine) |-> mine[n].what]

\* C11: a deleteCredential sends the delete request first and, once it is
\* answered, one fetch; the step that takes the answer of the delete request
\* leaves the store as it is, and the call applies nothing before the fetch
\* is answered; when the fetch is answered the store is _setCredentials of
\* its response (the binding is in the store exactly when it is in the
\* response); when the delete request fails nothing is fetched or applied,
\* and when the fetch fails the store is reset; both errors are thrown
C11_DeleteThenFullFetch ==
    /\ [](\A i \in 1..Len(calls) : calls[i].op = "deleteCredential" =>
            LET c == calls[i]
            IN  /\ c.awaits = "deleteCloudProviderCredential" =>
                      c.issued = <<"deleteCloudProviderCredential">> /\ WhatApplied(i) = <<>>
                /\ c.awaits = "getCloudProviderCredentials" =>
                      /\ c.issued = <<"deleteCloudProviderCredential",
                                      "getCloudProviderCredentials">>
                      /\ WhatApplied(i) = <<>>
                /\ c.awaits \in {"fetchCredentials", "resolved"} =>
                      /\ c.issued = <<"deleteCloudProviderCredential",
                                      "getCloudProviderCredentials">>
                      /\ WhatApplied(i) = <<"fetched">>
                /\ c.awaits = "rejected" =>
                      /\ c.thrown \in AsyncErrors
                      /\ \/ /\ c.issued = <<"deleteCloudProviderCredential">>
                            /\ WhatApplied(i) = <<>>
                         \/ /\ c.issued = <<"deleteCloudProviderCredential",
                                            "getCloudProviderCredentials">>
                            /\ WhatApplied(i) = <<"reset">>)
    /\ [](applied # <<>> =>
            LET e == applied[Len(applied)]
            IN  (e.call > 0 /\ calls[e.call].op = "deleteCredential") =>
                    IF e.what = "fetched"
                    THEN /\ state = setCredentials(EmptyState, e.data)
                         /\ "a/s" \in KeySet(state.credentialsBindings) <=>
                               Has(e.data, "credentialsBindings")
                    ELSE AllEmpty(state))
    /\ [][\A i \in 1..Len(calls) :
            (/\ calls[i].op = "deleteCredential"
             /\ calls[i].awaits = "deleteCloudProviderCredential"
             /\ calls'[i].awaits # "deleteCloudProviderCredential") =>
                state' = state /\ applied' = applied]_vars

\* C11, its case: the store held the binding a/s, a deleteCredential had its
\* delete request and then its fetch answered, the fetch without the
\* binding, and the store no longer holds it
C11_Witness ==
    /\ Len(applied) >= 2
    /\ Has(applied[Len(applied) - 1].data, "credentialsBindings")
    /\ LET e == applied[Len(applied)]
       IN  /\ e.call > 0
           /\ calls[e.call].op = "deleteCredential"
           /\ calls[e.call].awaits = "resolved"
           /\ e.what = "fetched"
           /\ ~Has(e.data, "credentialsBindings")
    /\ "a/s" \notin KeySet(state.credentialsBindings)
    /\ state.secrets # <<>>

\* the messages call i gave
Messages(i) == {n \in 1..Len(sink) : sink[n].call = i}

\* the message a resolved call gives: a created binding is named as the
\* response names it, an updated secret and a deleted binding as the request
MessageOf(i) ==
    LET c == calls[i]
    IN
    CASE c.op = "createCredential" ->
            Message(applied[CHOOSE k \in AppliedBy(i) : TRUE].data.binding.metadata.name,
                    "created")
      [] c.op = "updateCredential" -> Message(c.request.secret.metadata.name, "updated")
      [] c.op = "deleteCredential" -> Message(c.request.bindingName, "deleted")
      [] OTHER -> "none"

\* C12: a createCredential, updateCredential or deleteCredential that
\* resolved gave exactly one message, after it had applied its response to
\* the store; a call that is in flight or was rejected (a deleteCredential
\* whose fetch failed too) gave none, nor does fetchCredentials
C12_OneMessagePerSuccess ==
    /\ \A i \in 1..Len(calls) :
          IF calls[i].awaits = "resolved" /\ calls[i].op # "fetchCredentials"
          THEN /\ Cardinality(Messages(i)) = 1
               /\ \A n \in Messages(i) :
                     /\ sink[n].msg = MessageOf(i)
                     /\ \E k \in AppliedBy(i) :
                           /\ k <= sink[n].after
                           /\ applied[k].what \in {"created", "updated", "fetched"}
          ELSE Messages(i) = {}
    /\ \A n \in 1..Len(sink) : sink[n].call \in 1..Len(calls)

\* C12, its case: one deleteCredential resolved and gave its message, another
\* had its delete answered and its fetch rejected and gave none
C12_Witness ==
    \E i, j \in 1..Len(calls) :
        /\ calls[i].op = "deleteCredential" /\ calls[i].awaits = "resolved"
        /\ calls[j].op = "deleteCredential" /\ calls[j].awaits = "rejected"
        /\ Len(calls[j].issued) = 2
        /\ Len(sink) = 1
        /\ sink[1].call = i
        /\ sink[1].msg = "Cloud Provider credential s deleted"

\* the labels declare the capability t: the key is the prefix and t, the
\* value is 'true'
Declares(metadata, t) ==
    /\ Has(metadata, "labels")
    /\ \E n \in 1..Len(metadata.labels) :
          /\ metadata.labels[n].key = "provider.shoot.gardener.cloud/" \o t
          /\ metadata.labels[n].value = "true"

ProviderTypes == {"aws", "gcp", "azure"}

\* b, stored under key, is the virtual binding of that kind for the owner
\* and the capability t
IsVirtualOf(key, b, owner, kind, t) ==
    /\ key = owner.metadata.namespace \o "/" \o owner.metadata.name \o "/" \o t
    /\ b.kind = kind
    /\ b.provider.type = t
    /\ b.metadata.uid = owner.metadata.uid \o "-" \o t
    /\ b.metadata.namespace = owner.metadata.namespace
    /\ b.metadata.name = owner.metadata.name
    /\ LET ref == IF kind = "Secret" THEN b.secretRef ELSE b.credentialsRef
       IN  ref.name = owner.metadata.name /\ ref.namespace = owner.metadata.namespace

\* the virtual bindings of a store that holds one owner: one for each
\* capability its labels declare, and no other
VirtualsOfOne(bindings, owner, kind) ==
    /\ \A t \in ProviderTypes :
          Declares(owner.metadata, t) =>
              \E e \in Entries(bindings) : IsVirtualOf(e.k, e.v, owner, kind, t)
    /\ \A e \in Entries(bindings) :
          \E t \in ProviderTypes :
              Declares(owner.metadata, t) /\ IsVirtualOf(e.k, e.v, owner, kind, t)
    /\ UniqueKeys(bindings)

ExampleSecret == [metadata |-> Labelled("a", "s1", "u1", LabelsA)]

\* C13: the virtual bindings a fetch derives from one Secret or one
\* WorkloadIdentity, and a create or update from one Secret, are one for each
\* capability its labels declare (prefix and 'true'), under
\* namespace/name/t, of the owner's kind, with provider.type t, the uid
\* owner.uid-t and the reference to the owner's name and namespace; every
\* virtual binding in the store has that shape for the metadata it carries;
\* the Secret a/s1 with the uid u1 and the label of aws alone gives the one
\* binding a/s1/aws of kind 'Secret', type aws and uid u1-aws
C13_VirtualBindingShape ==
    /\ \A x \in SecretItems :
          VirtualsOfOne(setCredentials(state, [secrets |-> <<x>>]).credentialsBindings,
                        x, "Secret")
    /\ \A w \in WorkloadIdentityItems :
          VirtualsOfOne(setCredentials(state, [workloadIdentities |-> <<w>>]).credentialsBindings,
                        w, "WorkloadIdentity")
    /\ \A x \in SecretResults :
          LET bindings == updateCloudProviderCredential(state, [secret |-> x]).credentialsBindings
              own(e) == e.v.kind = "Secret" /\ startsWith(e.k, namespaceNameKey(x.metadata) \o "/")
          IN  VirtualsOfOne(SelectSeq(bindings, own), x, "Secret")
    /\ \A e \in Entries(state.credentialsBindings) :
          e.v.kind # "CredentialsBinding" =>
              /\ e.v.kind \in {"Secret", "WorkloadIdentity"}
              /\ Declares(e.v.metadata, e.v.provider.type)
              /\ \E u \in {"u1", "w1"} :
                    IsVirtualOf(e.k, e.v, [metadata |-> [e.v.metadata EXCEPT !.uid = u]],
                                e.v.kind, e.v.provider.type)
    /\ (/\ state.secrets = <<Entry("a/s1", WithKind(ExampleSecret, "Secret"))>>
        /\ state.secretBindings = <<>>
        /\ state.workloadIdentities = <<>>
        /\ credentialsBindingList = <<>>) =>
          /\ Len(cloudProviderBindingList) = 1
          /\ Keys(state.credentialsBindings) = <<"a/s1/aws">>
          /\ cloudProviderBindingList[1].kind = "Secret"
          /\ cloudProviderBindingList[1].provider.type = "aws"
          /\ cloudProviderBindingList[1].metadata.uid = "u1-aws"

\* C13, its case: the store after a fetch that returned the Secret a/s1 alone
C13_Witness ==
    /\ state.secrets = <<Entry("a/s1", WithKind(ExampleSecret, "Secret"))>>
    /\ state.secretBindings = <<>>
    /\ state.workloadIdentities = <<>>
    /\ state.quotas = <<>>
    /\ Keys(state.credentialsBindings) = <<"a/s1/aws">>
    /\ cloudProviderBindingList[1].metadata.uid = "u1-aws"
    /\ cloudProviderBindingList[1].secretRef = [name |-> "s1", namespace |-> "a"]

\* C14: a createCredential or updateCredential, resolved or rejected, leaves
\* state.quotas and state.workloadIdentities as it found them; a step that
\* changes state.quotas is a fetch (of fetchCredentials or deleteCredential)
\* or a $reset
C14_QuotasChangeByFetchOnly ==
    /\ [](last.op \in {"createCredential", "updateCredential"} =>
            /\ state.quotas = prior.quotas
            /\ state.workloadIdentities = prior.workloadIdentities)
    /\ [][state.quotas' # state.quotas =>
            last' \in {Succeeded("fetchCredentials", "none"), Succeeded("$reset", "none")}
                \cup {Succeeded("deleteCredential", Message("s", "deleted"))}
                \cup {Rejected(op, "getCloudProviderCredentials", err) :
                        op \in {"fetchCredentials", "deleteCredential"}, err \in Errors}]_vars

\* C14, its case: a createCredential wrote a binding and a Secret into a
\* store that holds a quota and a WorkloadIdentity, and both are as before
C14_Witness ==
    /\ CallSucceeded({"createCredential"})
    /\ Has(io.response, "binding") /\ Has(io.response, "secret")
    /\ state.secrets # prior.secrets
    /\ state.credentialsBindings # prior.credentialsBindings
    /\ state.quotas # <<>>
    /\ state.workloadIdentities # <<>>

\* the places of the explicit bindings in state.credentialsBindings
ExplicitPlaces ==
    {n \in 1..Len(state.credentialsBindings) :
        state.credentialsBindings[n].v.kind = "CredentialsBinding"}

\* C15: every record of state.credentialsBindings has a kind, and it is
\* 'CredentialsBinding', 'Secret' or 'WorkloadIdentity'; the virtual ones are
\* under namespace/name/type; cloudProviderBindingList is the records of
\* state.secretBindings followed by those of state.credentialsBindings, and
\* credentialsBindingList the records of kind 'CredentialsBinding', in their
\* order
C15_ListsClassifyEveryRecord ==
    /\ \A e \in Entries(state.credentialsBindings) :
          /\ Has(e.v, "kind")
          /\ e.v.kind \in {"CredentialsBinding", "Secret", "WorkloadIdentity"}
          /\ e.v.kind # "CredentialsBinding" =>
                e.k = namespaceNameKey(e.v.metadata) \o "/" \o e.v.provider.type
    /\ Len(cloudProviderBindingList) =
           Len(state.secretBindings) + Len(state.credentialsBindings)
    /\ \A n \in 1..Len(state.secretBindings) :
          cloudProviderBindingList[n] = state.secretBindings[n].v
    /\ \A n \in 1..Len(state.credentialsBindings) :
          cloudProviderBindingList[Len(state.secretBindings) + n] =
              state.credentialsBindings[n].v
    /\ Len(credentialsBindingList) = Cardinality(ExplicitPlaces)
    /\ \A n \in 1..Len(credentialsBindingList) :
          \E place \in ExplicitPlaces :
              /\ credentialsBindingList[n] = state.credentialsBindings[place].v
              /\ Cardinality({q \in ExplicitPlaces : q < place}) = n - 1

\* C15, its case: the store holds a secret binding, an explicit binding, a
\* virtual binding of a Secret and one of a WorkloadIdentity, the explicit
\* binding after a virtual one
C15_Witness ==
    /\ state.secretBindings # <<>>
    /\ {"CredentialsBinding", "Secret", "WorkloadIdentity"} \subseteq
           {e.v.kind : e \in Entries(state.credentialsBindings)}
    /\ state.credentialsBindings[1].v.kind # "CredentialsBinding"
    /\ Len(credentialsBindingList) = 1
    /\ Len(cloudProviderBindingList) >= 4

\* C16: with an allow-list configured, a connection from an origin that is
\* not in it ended in a connect_error and a connection from an origin in it
\* is connected; without an allow-list every connection is connected
C16_OriginAllowList ==
    gateway.created =>
        \A n \in 1..Len(gateway.sockets) :
            LET socket == gateway.sockets[n]
            IN  IF gateway.allowed # {} /\ socket.origin \notin gateway.allowed
                THEN socket.event = "connect_error" /\ ~socket.connected
                ELSE socket.event = "connect" /\ socket.connected

\* C16, its case: with https://allowed.example.org allowed, one connection
\* from it is connected and one from https://forbidden.example.org ended in
\* a connect_error
C16_Witness ==
    /\ gateway.created
    /\ gateway.allowed = {"https://allowed.example.org"}
    /\ \E n, k \in 1..Len(gateway.sockets) :
          /\ gateway.sockets[n].origin = "https://allowed.example.org"
          /\ gateway.sockets[n].connected
          /\ gateway.sockets[k].origin = "https://forbidden.example.org"
          /\ gateway.sockets[k].event = "connect_error"

\* the writes with the upserts of the listed resources before the virtual
\* bindings, each group in the order it has
UpsertsFirst(writes) ==
    LET isReset(w) == w.op = "reset"
        isUpsert(w) == w.op = "upsert"
        isVirtual(w) == w.op = "virtual"
    IN  SelectSeq(writes, isReset) \o SelectSeq(writes, isUpsert)
            \o SelectSeq(writes, isVirtual)

\* the reset is the first write of _setCredentials and the only one, the
\* store is what the writes make of it, and it has the keys and records that
\* the upserts of all five lists followed by the virtual bindings make
ResetThenWrites(writes) ==
    /\ writes[1].op = "reset"
    /\ \A n \in 2..Len(writes) : writes[n].op # "reset"
    /\ state = writeAll(EmptyState, writes)
    /\ SameStore(state, writeAll(EmptyState, UpsertsFirst(writes)))

\* C17: in a _setCredentials the reset comes first, every upsert of a listed
\* resource comes before every virtual binding, and the store has the keys
\* and records of the reset, the upserts and then the virtual bindings
C17_UpsertsPrecedeVirtuals ==
    CallSucceeded({"fetchCredentials", "deleteCredential"}) =>
        LET writes == setCredentialsWrites(io.response)
        IN  /\ ResetThenWrites(writes)
            /\ \A n, k \in 1..Len(writes) :
                  (writes[n].op = "upsert" /\ writes[k].op = "virtual") => n < k

PlaceOf(c) ==
    CASE c = "secretBindings" -> 1 [] c = "secrets" -> 2 [] c = "credentialsBindings" -> 3
      [] c = "workloadIdentities" -> 4 [] c = "quotas" -> 5

\* C17 amended: in a _setCredentials the reset comes first; the lists are
\* upserted in the order secretBindings, secrets, credentialsBindings,
\* workloadIdentities, quotas; the virtual bindings of a Secret or
\* WorkloadIdentity are set right after its own upsert, before the next
\* resource, so those of the Secrets come before the upserts of the
\* credentialsBindings; the store has the keys and records of the reset, the
\* upserts and then the virtual bindings
C17_OwnerThenItsVirtuals ==
    CallSucceeded({"fetchCredentials", "deleteCredential"}) =>
        LET writes == setCredentialsWrites(io.response)
            upserts == {n \in 1..Len(writes) : writes[n].op = "upsert"}
        IN  /\ ResetThenWrites(writes)
            /\ \A n, k \in upserts : n < k => PlaceOf(writes[n].c) <= PlaceOf(writes[k].c)
            /\ \A k \in 1..Len(writes) :
                  writes[k].op = "virtual" =>
                      LET n == CHOOSE n \in upserts :
                                   n < k /\ \A q \in upserts : q < k => q <= n
                      IN  /\ writes[n].c \in {"secrets", "workloadIdentities"}
                          /\ writes[k].value.kind = writes[n].value.kind
                          /\ startsWith(writes[k].key, writes[n].key \o "/")
                          /\ writes[k].value.metadata.uid =
                                 writes[n].value.metadata.uid \o "-"
                                     \o writes[k].value.provider.type

\* C17, its case: a fetch returned a Secret with a capability and an explicit
\* binding; the virtual binding of the Secret was set before the explicit
\* binding was upserted, and is before it in state.credentialsBindings
C17_Witness ==
    /\ CallSucceeded({"fetchCredentials"})
    /\ Has(io.response, "secrets") /\ Has(io.response, "credentialsBindings")
    /\ Len(state.credentialsBindings) = 3
    /\ state.credentialsBindings[1].v.kind = "Secret"
    /\ state.credentialsBindings[3].v.kind = "CredentialsBinding"
    /\ LET writes == setCredentialsWrites(io.response)
       IN  \E n, k \in 1..Len(writes) :
               n < k /\ writes[n].op = "virtual" /\ writes[k].op = "upsert"

\* one application to the store, as the handler that made it made it
applyOne(st, a) ==
    CASE a.what = "fetched" -> setCredentials(st, a.data)
      [] a.what = "reset" -> resetState(st)
      [] a.what = "created" ->
            updateCloudProviderCredential(st, destructure(a.data, {"binding", "secret"}))
      [] a.what = "updated" ->
            updateCloudProviderCredential(st, destructure(a.data, {"secret"}))

\* the applications of a log made one after the other
RECURSIVE Replay(_, _)
Replay(st, log) == IF log = <<>> THEN st ELSE Replay(applyOne(st, Head(log)), Tail(log))

\* the store that application n found
Found(n) == Replay(EmptyState, SubSeq(applied, 1, n - 1))

\* the last application, when it is a fetch; every earlier one was the last
\* of an earlier state
Fetches == {n \in {Len(applied)} \ {0} : applied[n].what = "fetched"}

\* the store after _setCredentials(X) is the same whatever store X is
\* applied to: the empty one, the one the call found and the one it left
DependsOnResponseOnly(n) ==
    \A st \in {EmptyState, Found(n), state} : setCredentials(st, applied[n].data) = state

\* the virtual bindings of the Secrets and WorkloadIdentities of a response
VirtualsOf(data) ==
    workloadIdentitiesVirtualBindings(
        secretsVirtualBindings(<<>>, collection(data, "secrets")),
        collection(data, "workloadIdentities"))

\* C18: the store after _setCredentials(X) depends on X only, and every
\* collection missing from X is an empty mapping
C18_MissingCollectionIsEmpty ==
    \A n \in Fetches :
        /\ DependsOnResponseOnly(n)
        /\ \A c \in Collections : ~Has(applied[n].data, c) => state[c] = <<>>

\* C18 amended: the store after _setCredentials(X) depends on X only; a
\* collection missing from X is treated as an empty list, so its mapping
\* keeps nothing of the earlier store: it is empty, except that
\* state.credentialsBindings then holds exactly the virtual bindings of the
\* Secrets and WorkloadIdentities of X
C18_MissingCollectionKeepsNothing ==
    \A n \in Fetches :
        /\ DependsOnResponseOnly(n)
        /\ \A c \in Collections \ {"credentialsBindings"} :
              ~Has(applied[n].data, c) => state[c] = <<>>
        /\ ~Has(applied[n].data, "credentialsBindings") =>
              state.credentialsBindings = VirtualsOf(applied[n].data)

\* C18, its case: the last fetch found a workload identity and an explicit
\* binding in the store and its response had neither list but a Secret
\* with a capability; the workload identities are empty and the bindings
\* are the virtual bindings of the Secret
C18_Witness ==
    /\ applied # <<>>
    /\ LET n == Len(applied)
       IN  /\ n \in Fetches
           /\ Found(n).workloadIdentities # <<>>
           /\ \E e \in Entries(Found(n).credentialsBindings) :
                  e.v.kind = "CredentialsBinding"
           /\ ~Has(applied[n].data, "workloadIdentities")
           /\ ~Has(applied[n].data, "credentialsBindings")
           /\ state.workloadIdentities = <<>>
           /\ state.credentialsBindings # <<>>
           /\ \A e \in Entries(state.credentialsBindings) : e.v.kind = "Secret"

\* the virtual binding e has its owner in the mapping: the key is the
\* owner's key and a capability the owner's labels declare now, and the
\* metadata is the owner's with the capability appended to the uid
HasOwner(e, owners) ==
    \E o \in Entries(owners) :
        \E t \in Tags(o.v) :
            /\ e.k = o.k \o "/" \o t
            /\ e.v.provider.type = t
            /\ e.v.metadata = [o.v.metadata EXCEPT !.uid = o.v.metadata.uid \o "-" \o t]

\* C19: every record of kind 'Secret' in state.credentialsBindings has its
\* owner in state.secrets and every record of kind 'WorkloadIdentity' its
\* owner in state.workloadIdentities, under the key without the capability,
\* with labels that declare the capability and with the metadata of the
\* record but for the uid suffix
C19_NoOrphanedVirtualBinding ==
    \A e \in Entries(state.credentialsBindings) :
        /\ e.v.kind = "Secret" => HasOwner(e, state.secrets)
        /\ e.v.kind = "WorkloadIdentity" => HasOwner(e, state.workloadIdentities)

\* the store is the completed responses applied one after the other in the
\* order of their completion, and after a fetch it is that fetch's response
\* alone
ReplayOfCompleted ==
    /\ state = Replay(EmptyState, applied)
    /\ \A n \in Fetches : state = setCredentials(EmptyState, applied[n].data)

\* every stored Secret has, for each capability its labels declare, its
\* virtual binding of kind 'Secret'
SecretsAccompanied ==
    \A o \in Entries(state.secrets) :
        \A t \in Tags(o.v) : IsVirtualFor(state, o.k, "Secret", t)

\* C20: with any calls in flight, every state between two steps is the
\* completed responses applied in the order of their completion, each in one
\* step; after overlapping fetches the store is the response of the fetch
\* that completed last and no mixture; and each stored Secret has its virtual
\* bindings
C20_AppliedAtCompletion == ReplayOfCompleted /\ SecretsAccompanied

\* the part of C20 that holds with a Secret and a WorkloadIdentity of one
\* name in a response: the responses are applied whole, in the order of
\* their completion
C20_CompletionOrder == ReplayOfCompleted

\* two fetches were in flight together, the one called first completed
\* last, and the store is its response
C20_Overlapping ==
    /\ Len(applied) = 2
    /\ applied[1].what = "fetched" /\ applied[2].what = "fetched"
    /\ applied[1].call = 2 /\ applied[2].call = 1
    /\ applied[1].data # applied[2].data
    /\ state = setCredentials(EmptyState, applied[2].data)
    /\ state # setCredentials(EmptyState, applied[1].data)

====
